---- MODULE Spec2Model ----
(***************************************************************************)
(* Model of the `ipfs cid` commands (format, base32, bases, hashes) and of *)
(* `ipfs urlstore add`.                                                    *)
(*                                                                         *)
(* The module holds four independent state machines, one per group of     *)
(* commands, each with its own specification:                              *)
(*   SpecFmt   cid format / cid base32  (cidFmtCmd.Run, base32Cmd.Run,     *)
(*             emitCids)                                                   *)
(*   SpecConv  the version converters   (toCidV0, toCidV1)                 *)
(*   SpecList  the registry listings    (basesCmd, hashesCmd and their     *)
(*             text encoders)                                              *)
(*   SpecUrl   urlstore add             (urlAdd.Run)                       *)
(***************************************************************************)
EXTENDS Integers, Sequences, FiniteSets, TLC

VARIABLES
    \* ---- cid format / cid base32 ----
    req,        \* the request: [cmd, f, v, b, args] (req.Options, req.Arguments)
    opts,       \* cidFormatOpts handed to emitCids: [fmtStr, newBase, verConv]
    pc,         \* "idle" | "emitCids" (inside the loop) | "done" (Run returned)
    idx,        \* position of the range loop over req.Arguments (1-based)
    emitted,    \* the CidFormatRes values passed to resp.Emit, in order
    ret,        \* what Run returned: "" before it returns, else "nil" or the error
    calls,      \* how often cid.Decode, opts.verConv and cidutil.Format were called
    \* ---- version converters ----
    orig,       \* the identifier a conversion chain started from
    cur,        \* the identifier the chain has reached
    convErr,    \* the error of the last conversion ("nil" when none)
    hist,       \* the conversions applied so far, in order: "0" / "1"
    \* ---- registry listings ----
    baseTbl,    \* mbase.EncodingToStr: the set of registered encoding codes
    hashTbl,    \* mhash.Codes: the set of registered hash-function codes
    listCmd,    \* "" | "bases" | "hashes"
    listRes,    \* the []CodeAndName that Run emitted (map-iteration order)
    listOut,    \* the rows the text encoder printed, in order
    listPc,     \* "idle" | "emitted" | "encoded"
    \* ---- urlstore add ----
    urlPc,      \* position inside urlAdd.Run
    urlReq,     \* [url, trickle]
    urlLog,     \* the checks passed and the importer calls made, in order
    urlHres,    \* the HTTP response: [StatusCode, ContentLength]
    urlRoot,    \* the root the importer returned
    urlEmitted, \* the BlockStat values emitted
    urlRet      \* what Run returned: "" before it returns, "nil" or the error

fmtVars  == <<req, opts, pc, idx, emitted, ret, calls>>
convVars == <<orig, cur, convErr, hist>>
listVars == <<baseTbl, hashTbl, listCmd, listRes, listOut, listPc>>
urlVars  == <<urlPc, urlReq, urlLog, urlHres, urlRoot, urlEmitted, urlRet>>
vars     == <<fmtVars, convVars, listVars, urlVars>>

-----------------------------------------------------------------------------
(* Bounds of the model.                                                    *)

\* longest request argument list
MaxArgs == 2
\* longest format string, in characters
MaxFmtLen == 3
\* longest chain of conversions applied to one identifier
MaxConv == 3
\* most entries in the multibase registry
MaxTable == 4

-----------------------------------------------------------------------------
(* Identifiers.                                                            *)

\* cid.DagProtobuf, the one codec a CIDv0 denotes
DagProtobuf == 112
\* mbase.Base32 ('b') and mbase.Base58BTC ('z'); an Encoding is its marker
Base32 == 98
Base58BTC == 122
\* mbase.Encoding(-1): "keep the base of the input"
NoBase == -1

\* codec tags: dag-pb, raw (0x55), dag-cbor (0x71)
Codecs == {DagProtobuf, 85, 113}
\* hash-function tags: sha2-256 (0x12), sha2-512 (0x13)
MhTypes == {18, 19}
\* digests, as opaque byte strings
Digests == {"A", "B"}

\* cid.Cid{}: the zero value returned next to an error
CidUndef == [version |-> -1, codec |-> 0, mhType |-> 0, digest |-> ""]

\* A CIDv0 carries only a multihash; its codec is DagProtobuf by definition.
Identifiers ==
    { [version |-> 0, codec |-> DagProtobuf, mhType |-> m, digest |-> d] :
          m \in MhTypes, d \in Digests }
    \cup
    { [version |-> 1, codec |-> c, mhType |-> m, digest |-> d] :
          c \in Codecs, m \in MhTypes, d \in Digests }

\* c.Type()
Type(c) == c.codec
\* c.Hash(): the multihash, tag and digest
Hash(c) == [mhType |-> c.mhType, digest |-> c.digest]

NewCidV0(h) ==
    [version |-> 0, codec |-> DagProtobuf, mhType |-> h.mhType, digest |-> h.digest]

NewCidV1(codec, h) ==
    [version |-> 1, codec |-> codec, mhType |-> h.mhType, digest |-> h.digest]

ErrNonProtobuf == "can't convert non-protobuf nodes to cidv0"

\* toCidV0 without its codec check
toCidV0NoCodecCheck(c) ==
    [c |-> NewCidV0(Hash(c)), err |-> "nil"]

toCidV0(c) ==
    IF Type(c) # DagProtobuf
    THEN [c |-> CidUndef, err |-> ErrNonProtobuf]
    ELSE [c |-> NewCidV0(Hash(c)), err |-> "nil"]

\* toCidV1 building the result from the digest alone, under the default tag
toCidV1DefaultHash(c) ==
    [c |-> NewCidV1(Type(c), [mhType |-> 18, digest |-> c.digest]), err |-> "nil"]

\* toCidV1 tagging every result DagProtobuf
toCidV1ForceProtobuf(c) ==
    [c |-> NewCidV1(DagProtobuf, Hash(c)), err |-> "nil"]

toCidV1(c) ==
    [c |-> NewCidV1(Type(c), Hash(c)), err |-> "nil"]

\* opts.verConv(c) for the three values opts.verConv takes: nil is never called
VerConv(which, c) ==
    IF which = "toCidV0" THEN toCidV0(c) ELSE toCidV1(c)

-----------------------------------------------------------------------------
(* Textual identifiers: cid.Decode, cid.ExtractEncoding, c.StringOfBase.   *)

Bases == {Base32, Base58BTC}

BaseMarker(b) == IF b = Base32 THEN "b" ELSE "z"
CodecTag(c) == IF c = DagProtobuf THEN "afy" ELSE IF c = 85 THEN "afk" ELSE "afr"
MhText(m) == IF m = 18 THEN "Qm" ELSE "8V"

ErrInvalidEncoding == "invalid base encoding"
ErrInvalidCid == "selected encoding not supported"

\* c.StringOfBase(base): a CIDv0 has one textual form, the bare base58btc
\* multihash; a CIDv1 is its base marker followed by the encoded bytes.
StringOfBase(c, base) ==
    IF c.version = 0
    THEN IF base # Base58BTC
         THEN [str |-> "", err |-> ErrInvalidEncoding]
         ELSE [str |-> MhText(c.mhType) \o c.digest, err |-> "nil"]
    ELSE [str |-> BaseMarker(base) \o CodecTag(c.codec) \o MhText(c.mhType) \o c.digest,
          err |-> "nil"]

\* the (base, identifier) pairs whose text is s
Readings(s) ==
    { p \in Bases \X Identifiers :
        LET t == StringOfBase(p[2], p[1]) IN t.err = "nil" /\ t.str = s }

\* cid.Decode(s)
Decode(s) ==
    IF Readings(s) = {}
    THEN [c |-> CidUndef, err |-> ErrInvalidCid]
    ELSE [c |-> (CHOOSE p \in Readings(s) : TRUE)[2], err |-> "nil"]

\* cid.ExtractEncoding(s), for a string that decodes
ExtractEncoding(s) ==
    IF Readings(s) = {} THEN NoBase ELSE (CHOOSE p \in Readings(s) : TRUE)[1]

\* the strings a request may carry as arguments
CidStrs == {"not-a-cid", "QmA", "bafyQmA", "zafkQmB"}

-----------------------------------------------------------------------------
(* cidutil.Format: the printf-style template.                              *)

FmtChars == {"%", "s", "x"}

FormatStringError == "FormatStringError"

\* Renders fmtStr[i..] after acc. "%%" is a percent sign, "%s" the identifier
\* in base `base`; any other character after "%", and "%" as the last
\* character, is a FormatStringError; everything else is copied.
RECURSIVE FormatFrom(_, _, _, _, _)
FormatFrom(fmtStr, i, base, c, acc) ==
    IF i > Len(fmtStr) THEN [str |-> acc, err |-> "nil"]
    ELSE IF fmtStr[i] # "%" THEN FormatFrom(fmtStr, i + 1, base, c, acc \o fmtStr[i])
    ELSE IF i + 1 > Len(fmtStr) THEN [str |-> "", err |-> FormatStringError]
    ELSE IF fmtStr[i + 1] = "%" THEN FormatFrom(fmtStr, i + 2, base, c, acc \o "%")
    ELSE IF fmtStr[i + 1] = "s"
         THEN LET t == StringOfBase(c, base)
              IN  IF t.err # "nil" THEN [str |-> "", err |-> t.err]
                  ELSE FormatFrom(fmtStr, i + 2, base, c, acc \o t.str)
    ELSE [str |-> "", err |-> FormatStringError]

Format(fmtStr, base, c) == FormatFrom(fmtStr, 1, base, c, "")

-----------------------------------------------------------------------------
(* cid format / cid base32.                                                *)

\* strings.IndexByte(s, ch): the 0-based index of the first ch, or -1
IndexByte(s, ch) ==
    IF \E i \in 1..Len(s) : s[i] = ch
    THEN (CHOOSE i \in 1..Len(s) : s[i] = ch /\ \A j \in 1..(i - 1) : s[j] # ch) - 1
    ELSE -1

\* mbase.EncoderByName(name)
EncoderByName(name) ==
    IF name = "base32" THEN [enc |-> Base32, err |-> "nil"]
    ELSE IF name = "base58btc" THEN [enc |-> Base58BTC, err |-> "nil"]
    ELSE [enc |-> NoBase, err |-> "unsupported multibase encoding"]

ErrInvalidFormat == "invalid format string"
ErrInvalidVersion == "invalid cid version"
ErrUnknownBase == "unsupported multibase encoding"

NoOpts == [fmtStr |-> <<>>, newBase |-> NoBase, verConv |-> "nil"]

\* ParseOpts taking an unknown base name for "keep the base of the input"
ParseOptsNoBaseCheck(fmtStr, verStr, baseStr) ==
    IF IndexByte(fmtStr, "%") = -1
    THEN [err |-> ErrInvalidFormat, opts |-> NoOpts]
    ELSE IF verStr \notin {"", "0", "1"}
    THEN [err |-> ErrInvalidVersion, opts |-> NoOpts]
    ELSE [err |-> "nil",
          opts |-> [fmtStr |-> fmtStr,
                    newBase |-> IF baseStr # "" THEN EncoderByName(baseStr).enc
                                ELSE NoBase,
                    verConv |-> IF verStr = "0" THEN "toCidV0"
                                ELSE IF verStr = "1" THEN "toCidV1" ELSE "nil"]]

\* cidFmtCmd.Run up to the call of emitCids: the checks of the three options,
\* in the order of the code. err = "nil" when emitCids is reached.
ParseOpts(fmtStr, verStr, baseStr) ==
    IF IndexByte(fmtStr, "%") = -1
    THEN [err |-> ErrInvalidFormat, opts |-> NoOpts]
    ELSE IF verStr \notin {"", "0", "1"}
    THEN [err |-> ErrInvalidVersion, opts |-> NoOpts]
    ELSE IF baseStr # "" /\ EncoderByName(baseStr).err # "nil"
    THEN [err |-> EncoderByName(baseStr).err, opts |-> NoOpts]
    ELSE [err |-> "nil",
          opts |-> [fmtStr |-> fmtStr,
                    newBase |-> IF baseStr # "" THEN EncoderByName(baseStr).enc
                                ELSE NoBase,
                    verConv |-> IF verStr = "0" THEN "toCidV0"
                                ELSE IF verStr = "1" THEN "toCidV1" ELSE "nil"]]

\* the option values a request may carry
FmtStrs == UNION { [1..n -> FmtChars] : n \in 0..MaxFmtLen }
VerStrs == {"", "0", "1", "2"}
BaseStrs == {"", "base58btc", "base99"}
\* the "cid" argument is required and variadic: at least one string
ArgLists == UNION { [1..n -> CidStrs] : n \in 1..MaxArgs }

NoReq == [cmd |-> "", f |-> <<>>, v |-> "", b |-> "", args |-> <<>>]
NoCalls == [decode |-> 0, conv |-> 0, format |-> 0]

\* the emit closure of emitCids: the CidFormatRes it builds
Res(cidStr, fmtd, err) ==
    [CidStr |-> cidStr, Formatted |-> fmtd,
     ErrorMsg |-> IF err # "nil" THEN err ELSE ""]

\* the loop body returning a decode error instead of emitting it
IterationStopOnError(cidStr, o) ==
    LET d == Decode(cidStr)
        base == IF o.newBase = NoBase THEN ExtractEncoding(cidStr) ELSE o.newBase
        v == IF o.verConv # "nil" THEN VerConv(o.verConv, d.c)
             ELSE [c |-> d.c, err |-> "nil"]
        f == Format(o.fmtStr, base, v.c)
    IN  IF d.err # "nil"
        THEN [kind |-> "return", res |-> Res(cidStr, "", "nil"), err |-> d.err,
              calls |-> [decode |-> 1, conv |-> 0, format |-> 0]]
        ELSE IF v.err # "nil"
        THEN [kind |-> "emit", res |-> Res(cidStr, "", v.err), err |-> "nil",
              calls |-> [decode |-> 1, conv |-> 1, format |-> 0]]
        ELSE IF f.err = FormatStringError
        THEN [kind |-> "return", res |-> Res(cidStr, "", "nil"), err |-> f.err,
              calls |-> [decode |-> 1, conv |-> IF o.verConv # "nil" THEN 1 ELSE 0,
                         format |-> 1]]
        ELSE [kind |-> "emit", res |-> Res(cidStr, f.str, f.err), err |-> "nil",
              calls |-> [decode |-> 1, conv |-> IF o.verConv # "nil" THEN 1 ELSE 0,
                         format |-> 1]]

\* the loop body without the FormatStringError test: the error goes to the item
IterationEmitFormatError(cidStr, o) ==
    LET d == Decode(cidStr)
        base == IF o.newBase = NoBase THEN ExtractEncoding(cidStr) ELSE o.newBase
        v == IF o.verConv # "nil" THEN VerConv(o.verConv, d.c)
             ELSE [c |-> d.c, err |-> "nil"]
        f == Format(o.fmtStr, base, v.c)
    IN  IF d.err # "nil"
        THEN [kind |-> "emit", res |-> Res(cidStr, "", d.err), err |-> "nil",
              calls |-> [decode |-> 1, conv |-> 0, format |-> 0]]
        ELSE IF v.err # "nil"
        THEN [kind |-> "emit", res |-> Res(cidStr, "", v.err), err |-> "nil",
              calls |-> [decode |-> 1, conv |-> 1, format |-> 0]]
        ELSE [kind |-> "emit", res |-> Res(cidStr, f.str, f.err), err |-> "nil",
              calls |-> [decode |-> 1, conv |-> IF o.verConv # "nil" THEN 1 ELSE 0,
                         format |-> 1]]

\* the loop body dropping the error of opts.verConv and rendering the input
IterationIgnoreConvError(cidStr, o) ==
    LET d == Decode(cidStr)
        base == IF o.newBase = NoBase THEN ExtractEncoding(cidStr) ELSE o.newBase
        v == IF o.verConv # "nil" THEN VerConv(o.verConv, d.c)
             ELSE [c |-> d.c, err |-> "nil"]
        f == Format(o.fmtStr, base, IF v.err # "nil" THEN d.c ELSE v.c)
    IN  IF d.err # "nil"
        THEN [kind |-> "emit", res |-> Res(cidStr, "", d.err), err |-> "nil",
              calls |-> [decode |-> 1, conv |-> 0, format |-> 0]]
        ELSE IF f.err = FormatStringError
        THEN [kind |-> "return", res |-> Res(cidStr, "", "nil"), err |-> f.err,
              calls |-> [decode |-> 1, conv |-> IF o.verConv # "nil" THEN 1 ELSE 0,
                         format |-> 1]]
        ELSE [kind |-> "emit", res |-> Res(cidStr, f.str, f.err), err |-> "nil",
              calls |-> [decode |-> 1, conv |-> IF o.verConv # "nil" THEN 1 ELSE 0,
                         format |-> 1]]

\* One pass of the loop body of emitCids for cidStr under o:
\* [kind |-> "emit", res, calls] or [kind |-> "return", err, calls].
Iteration(cidStr, o) ==
    LET d == Decode(cidStr)
        base == IF o.newBase = NoBase THEN ExtractEncoding(cidStr) ELSE o.newBase
        v == IF o.verConv # "nil" THEN VerConv(o.verConv, d.c)
             ELSE [c |-> d.c, err |-> "nil"]
        f == Format(o.fmtStr, base, v.c)
    IN  IF d.err # "nil"
        THEN [kind |-> "emit", res |-> Res(cidStr, "", d.err), err |-> "nil",
              calls |-> [decode |-> 1, conv |-> 0, format |-> 0]]
        ELSE IF v.err # "nil"
        THEN [kind |-> "emit", res |-> Res(cidStr, "", v.err), err |-> "nil",
              calls |-> [decode |-> 1, conv |-> 1, format |-> 0]]
        ELSE IF f.err = FormatStringError
        THEN [kind |-> "return", res |-> Res(cidStr, "", "nil"), err |-> f.err,
              calls |-> [decode |-> 1, conv |-> IF o.verConv # "nil" THEN 1 ELSE 0,
                         format |-> 1]]
        ELSE [kind |-> "emit", res |-> Res(cidStr, f.str, f.err), err |-> "nil",
              calls |-> [decode |-> 1, conv |-> IF o.verConv # "nil" THEN 1 ELSE 0,
                         format |-> 1]]

FmtIdle ==
    /\ req = NoReq
    /\ opts = NoOpts
    /\ pc = "idle"
    /\ idx = 1
    /\ emitted = <<>>
    /\ ret = ""
    /\ calls = NoCalls

\* cidFmtCmd.Run: option checks, then emitCids is entered
CidFmtRun ==
    /\ pc = "idle"
    /\ \E fmtStr \in FmtStrs, verStr \in VerStrs, baseStr \in BaseStrs, args \in ArgLists :
         LET p == ParseOpts(fmtStr, verStr, baseStr) IN
         /\ req' = [cmd |-> "format", f |-> fmtStr, v |-> verStr, b |-> baseStr,
                    args |-> args]
         /\ opts' = p.opts
         /\ pc' = IF p.err = "nil" THEN "emitCids" ELSE "done"
         /\ ret' = IF p.err = "nil" THEN "" ELSE p.err
    /\ UNCHANGED <<idx, emitted, calls>>
    /\ UNCHANGED <<convVars, listVars, urlVars>>

\* base32Cmd.Run: fixed options, then emitCids is entered
Base32Run ==
    /\ pc = "idle"
    /\ \E args \in ArgLists :
         req' = [cmd |-> "base32", f |-> <<>>, v |-> "", b |-> "", args |-> args]
    /\ opts' = [fmtStr |-> <<"%", "s">>, newBase |-> Base32, verConv |-> "toCidV1"]
    /\ pc' = "emitCids"
    /\ UNCHANGED <<idx, emitted, ret, calls>>
    /\ UNCHANGED <<convVars, listVars, urlVars>>

\* emitCids: one iteration of the range loop
EmitCidsIter ==
    /\ pc = "emitCids"
    /\ idx <= Len(req.args)
    /\ LET it == Iteration(req.args[idx], opts) IN
         /\ calls' = [decode |-> calls.decode + it.calls.decode,
                      conv |-> calls.conv + it.calls.conv,
                      format |-> calls.format + it.calls.format]
         /\ IF it.kind = "return"
            THEN /\ ret' = it.err
                 /\ pc' = "done"
                 /\ UNCHANGED <<emitted, idx>>
            ELSE /\ emitted' = Append(emitted, it.res)
                 /\ idx' = idx + 1
                 /\ UNCHANGED <<ret, pc>>
    /\ UNCHANGED <<req, opts>>
    /\ UNCHANGED <<convVars, listVars, urlVars>>

\* emitCids: the loop is over, return nil
EmitCidsReturn ==
    /\ pc = "emitCids"
    /\ idx > Len(req.args)
    /\ ret' = "nil"
    /\ pc' = "done"
    /\ UNCHANGED <<req, opts, idx, emitted, calls>>
    /\ UNCHANGED <<convVars, listVars, urlVars>>


-----------------------------------------------------------------------------
(* The version converters, applied in chains to one identifier.            *)

ConvIdle ==
    /\ orig = CidUndef
    /\ cur = CidUndef
    /\ convErr = "nil"
    /\ hist = <<>>

\* c, err = toCidV0(c)
ApplyToV0 ==
    /\ orig # CidUndef
    /\ convErr = "nil"
    /\ Len(hist) < MaxConv
    /\ cur' = toCidV0(cur).c
    /\ convErr' = toCidV0(cur).err
    /\ hist' = Append(hist, "0")
    /\ UNCHANGED orig
    /\ UNCHANGED <<fmtVars, listVars, urlVars>>

\* c, err = toCidV1(c)
ApplyToV1 ==
    /\ orig # CidUndef
    /\ convErr = "nil"
    /\ Len(hist) < MaxConv
    /\ cur' = toCidV1(cur).c
    /\ convErr' = toCidV1(cur).err
    /\ hist' = Append(hist, "1")
    /\ UNCHANGED orig
    /\ UNCHANGED <<fmtVars, listVars, urlVars>>

-----------------------------------------------------------------------------
(* The registry listings: cid bases, cid hashes.                           *)

\* multibase codes: identity, 'B', 'b', 'F', 'f', 'z'
BasePool == {0, 66, 98, 70, 102, 122}
\* multihash codes: id, sha2-256, murmur3, md5
HashPool == {0, 18, 34, 213}

BaseName(code) ==
    CASE code = 0 -> "identity"
      [] code = 66 -> "BASE32"
      [] code = 98 -> "base32"
      [] code = 70 -> "BASE16"
      [] code = 102 -> "base16"
      [] OTHER -> "base58btc"

HashName(code) ==
    CASE code = 0 -> "id"
      [] code = 17 -> "sha1"
      [] code = 18 -> "sha2-256"
      [] code = 34 -> "murmur3"
      [] OTHER -> "md5"

\* verifcid.IsGoodHash(code)
IsGoodHash(code) == code \in {0, 17, 18}

CodeAndName(code, name) == [Code |-> code, Name |-> name]

\* the orders in which a range loop may visit the keys of a map
RangeOrders(keys) ==
    { o \in [1..Cardinality(keys) -> keys] : \A k \in keys : \E i \in DOMAIN o : o[i] = k }

\* unicode.ToLower(r), for the one-byte codes of the registry
ToLower(r) == IF r >= 65 /\ r <= 90 THEN r + 32 ELSE r

\* Less breaking a case tie by ascending code: uppercase first
multibaseSorter_LessUpperFirst(data, i, j) ==
    LET a == ToLower(data[i].Code)
        b == ToLower(data[j].Code)
    IN  IF a # b THEN a < b
        ELSE data[i].Code < data[j].Code

\* multibaseSorter.Less(i, j)
multibaseSorter_Less(data, i, j) ==
    LET a == ToLower(data[i].Code)
        b == ToLower(data[j].Code)
    IN  IF a # b THEN a < b
        ELSE data[i].Code > data[j].Code

\* codeAndNameSorter.Less(i, j)
codeAndNameSorter_Less(data, i, j) == data[i].Code < data[j].Code

\* data.Less(i, j) of the sort.Interface `sorter`
Less(sorter, data, i, j) ==
    IF sorter = "multibaseSorter" THEN multibaseSorter_Less(data, i, j)
    ELSE codeAndNameSorter_Less(data, i, j)

\* data.Swap(i, j)
Swap(data, i, j) == [data EXCEPT ![i] = data[j], ![j] = data[i]]

\* the inner loop of insertion sort: sink data[j] while it is Less than data[j-1]
RECURSIVE Sink(_, _, _)
Sink(sorter, data, j) ==
    IF j > 1 /\ Less(sorter, data, j, j - 1)
    THEN Sink(sorter, Swap(data, j, j - 1), j - 1)
    ELSE data

\* the outer loop, from position i on
RECURSIVE InsertFrom(_, _, _)
InsertFrom(sorter, data, i) ==
    IF i > Len(data) THEN data
    ELSE InsertFrom(sorter, Sink(sorter, data, i), i + 1)

\* sort.Sort(sorter{data}); below seven entries it is an insertion sort
Sort(sorter, data) == InsertFrom(sorter, data, 2)

ListIdle ==
    /\ baseTbl = {}
    /\ hashTbl = {}
    /\ listCmd = ""
    /\ listRes = <<>>
    /\ listOut = <<>>
    /\ listPc = "idle"

\* the rows basesCmd.Run appends when the map is visited in `order`
BasesRes(order) == [i \in DOMAIN order |-> CodeAndName(order[i], BaseName(order[i]))]

\* hashesCmd.Run without the IsGoodHash test
HashesResUnfiltered(order) ==
    [i \in DOMAIN order |-> CodeAndName(order[i], HashName(order[i]))]

\* the rows hashesCmd.Run appends when the map is visited in `order`
HashesRes(order) ==
    LET kept == SelectSeq(order, IsGoodHash)
    IN  [i \in DOMAIN kept |-> CodeAndName(kept[i], HashName(kept[i]))]

\* basesCmd.Run
BasesRun ==
    /\ listPc = "idle"
    /\ listCmd' = "bases"
    /\ \E order \in RangeOrders(baseTbl) : listRes' = BasesRes(order)
    /\ listPc' = "emitted"
    /\ UNCHANGED <<baseTbl, hashTbl, listOut>>
    /\ UNCHANGED <<fmtVars, convVars, urlVars>>

\* hashesCmd.Run
HashesRun ==
    /\ listPc = "idle"
    /\ listCmd' = "hashes"
    /\ \E order \in RangeOrders(hashTbl) : listRes' = HashesRes(order)
    /\ listPc' = "emitted"
    /\ UNCHANGED <<baseTbl, hashTbl, listOut>>
    /\ UNCHANGED <<fmtVars, convVars, urlVars>>

\* the text encoder of basesCmd: sort, then one row per entry
BasesEncode ==
    /\ listPc = "emitted"
    /\ listCmd = "bases"
    /\ listOut' = Sort("multibaseSorter", listRes)
    /\ listPc' = "encoded"
    /\ UNCHANGED <<baseTbl, hashTbl, listCmd, listRes>>
    /\ UNCHANGED <<fmtVars, convVars, urlVars>>

\* the text encoder of codecsCmd, which hashesCmd shares
HashesEncode ==
    /\ listPc = "emitted"
    /\ listCmd = "hashes"
    /\ listOut' = Sort("codeAndNameSorter", listRes)
    /\ listPc' = "encoded"
    /\ UNCHANGED <<baseTbl, hashTbl, listCmd, listRes>>
    /\ UNCHANGED <<fmtVars, convVars, urlVars>>


-----------------------------------------------------------------------------
(* urlstore add.                                                           *)

\* http.StatusOK
StatusOK == 200

Urls == {"http://h/a", "https://h/b", "ftp://h/c"}
StatusCodes == {StatusOK, 404, 500}
ContentLengths == {-1, 10}
Roots == {"bafyRootA", "bafyRootB"}

NoHres == [StatusCode |-> 0, ContentLength |-> 0]

ErrGetNode == "GetNode failed"
ErrUrlSyntax == "unsupported url syntax"
ErrConfig == "Config failed"
ErrUrlstoreNotEnabled == "urlstore not enabled"
ErrNewRequest == "NewRequest failed"
ErrDo == "Do failed"
ErrStatus == "expected code 200"
ErrLayout == "layout failed"

UrlIdle ==
    /\ urlPc = "idle"
    /\ urlReq = [url |-> "", trickle |-> FALSE]
    /\ urlLog = <<>>
    /\ urlHres = NoHres
    /\ urlRoot = ""
    /\ urlEmitted = <<>>
    /\ urlRet = ""

\* return err
UrlReturn(err) ==
    /\ urlPc' = "done"
    /\ urlRet' = err

\* urlAdd.Run is entered: url := req.Arguments[0]
UrlAddRun ==
    /\ urlPc = "idle"
    /\ \E url \in Urls, trickle \in BOOLEAN :
         urlReq' = [url |-> url, trickle |-> trickle]
    /\ urlPc' = "GetNode"
    /\ UNCHANGED <<urlLog, urlHres, urlRoot, urlEmitted, urlRet>>
    /\ UNCHANGED <<fmtVars, convVars, listVars>>

\* n, err := cmdenv.GetNode(env)
UrlGetNode ==
    /\ urlPc = "GetNode"
    /\ \E ok \in BOOLEAN :
         IF ok
         THEN urlPc' = "IsURL" /\ urlLog' = Append(urlLog, "GetNode") /\ UNCHANGED urlRet
         ELSE UrlReturn(ErrGetNode) /\ UNCHANGED urlLog
    /\ UNCHANGED <<urlReq, urlHres, urlRoot, urlEmitted>>
    /\ UNCHANGED <<fmtVars, convVars, listVars>>

\* if !filestore.IsURL(url)
UrlIsURL ==
    /\ urlPc = "IsURL"
    /\ \E ok \in BOOLEAN :
         IF ok
         THEN urlPc' = "Config" /\ urlLog' = Append(urlLog, "IsURL") /\ UNCHANGED urlRet
         ELSE UrlReturn(ErrUrlSyntax) /\ UNCHANGED urlLog
    /\ UNCHANGED <<urlReq, urlHres, urlRoot, urlEmitted>>
    /\ UNCHANGED <<fmtVars, convVars, listVars>>

\* the Config step without the UrlstoreEnabled test
UrlConfigIgnoreFlag ==
    /\ urlPc = "Config"
    /\ \E ok \in BOOLEAN :
         IF ~ok THEN UrlReturn(ErrConfig) /\ UNCHANGED urlLog
         ELSE urlPc' = "Http" /\ UNCHANGED <<urlLog, urlRet>>
    /\ UNCHANGED <<urlReq, urlHres, urlRoot, urlEmitted>>
    /\ UNCHANGED <<fmtVars, convVars, listVars>>

\* cfg, err := n.Repo.Config(); if !cfg.Experimental.UrlstoreEnabled
UrlConfig ==
    /\ urlPc = "Config"
    /\ \E ok \in BOOLEAN, enabled \in BOOLEAN :
         IF ~ok THEN UrlReturn(ErrConfig) /\ UNCHANGED urlLog
         ELSE IF ~enabled THEN UrlReturn(ErrUrlstoreNotEnabled) /\ UNCHANGED urlLog
         ELSE urlPc' = "Http" /\ urlLog' = Append(urlLog, "UrlstoreEnabled")
              /\ UNCHANGED urlRet
    /\ UNCHANGED <<urlReq, urlHres, urlRoot, urlEmitted>>
    /\ UNCHANGED <<fmtVars, convVars, listVars>>

\* http.NewRequest, http.DefaultClient.Do, the status check
UrlHttp ==
    /\ urlPc = "Http"
    /\ \E outcome \in {"NewRequestErr", "DoErr", "Response"},
          hres \in [StatusCode : StatusCodes, ContentLength : ContentLengths] :
         IF outcome = "NewRequestErr"
         THEN UrlReturn(ErrNewRequest) /\ UNCHANGED <<urlLog, urlHres>>
         ELSE IF outcome = "DoErr"
         THEN UrlReturn(ErrDo) /\ UNCHANGED <<urlLog, urlHres>>
         ELSE /\ urlHres' = hres
              /\ IF hres.StatusCode # StatusOK
                 THEN UrlReturn(ErrStatus) /\ UNCHANGED urlLog
                 ELSE urlPc' = "Layout" /\ urlLog' = Append(urlLog, "StatusOK")
                      /\ UNCHANGED urlRet
    /\ UNCHANGED <<urlReq, urlRoot, urlEmitted>>
    /\ UNCHANGED <<fmtVars, convVars, listVars>>

\* root, err := layout(dbp.New(chk)), layout chosen by the trickle option
UrlLayout ==
    /\ urlPc = "Layout"
    /\ urlLog' = Append(urlLog, IF urlReq.trickle THEN "trickle.Layout"
                                ELSE "balanced.Layout")
    /\ \E ok \in BOOLEAN, root \in Roots :
         IF ok
         THEN urlPc' = "EmitOnce" /\ urlRoot' = root /\ UNCHANGED urlRet
         ELSE UrlReturn(ErrLayout) /\ UNCHANGED urlRoot
    /\ UNCHANGED <<urlReq, urlHres, urlEmitted>>
    /\ UNCHANGED <<fmtVars, convVars, listVars>>

\* return cmds.EmitOnce(res, &BlockStat{...})
UrlEmitOnce ==
    /\ urlPc = "EmitOnce"
    /\ urlEmitted' = Append(urlEmitted,
                            [Key |-> urlRoot, Size |-> urlHres.ContentLength])
    /\ UrlReturn("nil")
    /\ UNCHANGED <<urlReq, urlLog, urlHres, urlRoot>>
    /\ UNCHANGED <<fmtVars, convVars, listVars>>

-----------------------------------------------------------------------------
(* The specifications.                                                     *)

InitFmt == FmtIdle /\ ConvIdle /\ ListIdle /\ UrlIdle

NextFmt ==
    \/ CidFmtRun
    \/ Base32Run
    \/ EmitCidsIter
    \/ EmitCidsReturn

SpecFmt == InitFmt /\ [][NextFmt]_vars

InitConv ==
    /\ FmtIdle /\ ListIdle /\ UrlIdle
    /\ orig \in Identifiers
    /\ cur = orig
    /\ convErr = "nil"
    /\ hist = <<>>

NextConv ==
    \/ ApplyToV0
    \/ ApplyToV1

SpecConv == InitConv /\ [][NextConv]_vars

InitList ==
    /\ FmtIdle /\ ConvIdle /\ UrlIdle
    /\ baseTbl \in { t \in SUBSET BasePool : Cardinality(t) <= MaxTable }
    /\ hashTbl \in SUBSET HashPool
    /\ listCmd = ""
    /\ listRes = <<>>
    /\ listOut = <<>>
    /\ listPc = "idle"

NextList ==
    \/ BasesRun
    \/ HashesRun
    \/ BasesEncode
    \/ HashesEncode

SpecList == InitList /\ [][NextList]_vars

InitUrl == FmtIdle /\ ConvIdle /\ ListIdle /\ UrlIdle

NextUrl ==
    \/ UrlAddRun
    \/ UrlGetNode
    \/ UrlIsURL
    \/ UrlConfig
    \/ UrlHttp
    \/ UrlLayout
    \/ UrlEmitOnce

SpecUrl == InitUrl /\ [][NextUrl]_vars

-----------------------------------------------------------------------------
(* Properties of cid format / cid base32 (SpecFmt).                        *)

\* Every "%" of fmtStr[i..] starts "%%" or "%s": Format never returns a
\* FormatStringError for it.
RECURSIVE WellFormedFrom(_, _)
WellFormedFrom(fmtStr, i) ==
    IF i > Len(fmtStr) THEN TRUE
    ELSE IF fmtStr[i] # "%" THEN WellFormedFrom(fmtStr, i + 1)
    ELSE /\ i + 1 <= Len(fmtStr)
         /\ fmtStr[i + 1] \in {"%", "s"}
         /\ WellFormedFrom(fmtStr, i + 2)

WellFormed(fmtStr) == WellFormedFrom(fmtStr, 1)

\* fmtStr[i..] ends in a "%" that no directive character follows
RECURSIVE EndsUnmatchedFrom(_, _)
EndsUnmatchedFrom(fmtStr, i) ==
    IF i > Len(fmtStr) THEN FALSE
    ELSE IF fmtStr[i] # "%" THEN EndsUnmatchedFrom(fmtStr, i + 1)
    ELSE IF i = Len(fmtStr) THEN TRUE
    ELSE EndsUnmatchedFrom(fmtStr, i + 2)

EndsUnmatched(fmtStr) == EndsUnmatchedFrom(fmtStr, 1)

InEmitCids == pc = "emitCids" \/ (pc = "done" /\ opts # NoOpts)

\* the identifier item s is rendered from, once decoded and converted under o
Converted(s, o) ==
    IF o.verConv = "nil" THEN [c |-> Decode(s).c, err |-> "nil"]
    ELSE VerConv(o.verConv, Decode(s).c)

BaseFor(s, o) == IF o.newBase = NoBase THEN ExtractEncoding(s) ELSE o.newBase

\* the result the batch owes item s under options o, whatever its neighbours
ItemResult(s, o) ==
    IF Decode(s).err # "nil"
    THEN [CidStr |-> s, Formatted |-> "", ErrorMsg |-> Decode(s).err]
    ELSE IF Converted(s, o).err # "nil"
    THEN [CidStr |-> s, Formatted |-> "", ErrorMsg |-> Converted(s, o).err]
    ELSE LET f == Format(o.fmtStr, BaseFor(s, o), Converted(s, o).c)
         IN  [CidStr |-> s, Formatted |-> f.str,
              ErrorMsg |-> IF f.err = "nil" THEN "" ELSE f.err]

\* item s gets as far as the malformed directive of the template of o
HitsFormatStringError(s, o) ==
    /\ Decode(s).err = "nil"
    /\ Converted(s, o).err = "nil"
    /\ Format(o.fmtStr, BaseFor(s, o), Converted(s, o).c).err = FormatStringError

\* C1: with a well-formed template emitCids emits exactly one result per
\* argument, in argument order; each result is the one its own item owes (an
\* item that fails to decode or to convert gets (input, "", message)), the loop
\* goes on after a failing item, and the call returns nil with as many results
\* as arguments.
C1_OneResultPerItem ==
    (InEmitCids /\ WellFormed(opts.fmtStr)) =>
        /\ Len(emitted) = idx - 1
        /\ Len(emitted) <= Len(req.args)
        /\ \A i \in 1..Len(emitted) : emitted[i] = ItemResult(req.args[i], opts)
        /\ ret \in {"", "nil"}
        /\ (pc = "done" => ret = "nil" /\ Len(emitted) = Len(req.args))

C1_Witness ==
    /\ pc = "done" /\ ret = "nil" /\ req.cmd = "format"
    /\ WellFormed(opts.fmtStr)
    /\ opts.verConv = "toCidV0"
    /\ Len(req.args) = 2
    /\ Decode(req.args[1]).err = "nil"
    /\ emitted[1] = [CidStr |-> req.args[1], Formatted |-> "", ErrorMsg |-> ErrNonProtobuf]
    /\ emitted[2].ErrorMsg = "" /\ emitted[2].Formatted # ""

C4_ToV0OnlyProtobuf ==
    /\ \A x \in Identifiers :
          IF x.codec # DagProtobuf
          THEN toCidV0(x) = [c |-> CidUndef, err |-> ErrNonProtobuf]
          ELSE /\ toCidV0(x).err = "nil"
               /\ toCidV0(x).c.version = 0
               /\ toCidV0(x).c.digest = x.digest
               /\ toCidV0(x).c.mhType = x.mhType
    /\ (InEmitCids /\ opts.verConv = "toCidV0") =>
          \A i \in 1..Len(emitted) :
             /\ emitted[i].CidStr = req.args[i]
             /\ (Decode(req.args[i]).err = "nil"
                   /\ Decode(req.args[i]).c.codec # DagProtobuf)
                => (emitted[i].Formatted = "" /\ emitted[i].ErrorMsg = ErrNonProtobuf)
             /\ (Decode(req.args[i]).err = "nil"
                   /\ Decode(req.args[i]).c.codec = DagProtobuf)
                => emitted[i].ErrorMsg # ErrNonProtobuf

C4_Witness ==
    /\ pc = "done" /\ ret = "nil"
    /\ opts.verConv = "toCidV0"
    /\ Len(emitted) = 2
    /\ Decode(req.args[1]).err = "nil" /\ Decode(req.args[1]).c.codec # DagProtobuf
    /\ emitted[1].ErrorMsg = ErrNonProtobuf
    /\ Decode(req.args[2]).err = "nil" /\ Decode(req.args[2]).c.version = 1
    /\ emitted[2].ErrorMsg = "" /\ emitted[2].Formatted = "QmA"

OptionErrors == {ErrInvalidFormat, ErrInvalidVersion, ErrUnknownBase}

BadFormatOption == IndexByte(req.f, "%") = -1
BadVersionOption == req.v \notin {"", "0", "1"}
BadBaseOption == req.b # "" /\ req.b \notin {"base32", "base58btc"}

\* C7: a format request with a template without "%", a version other than
\* "", "0", "1", or a base name the registry does not know returns that
\* option's error at once: nothing has been decoded, converted, rendered or
\* emitted. The first bad option, in the order template, version, base,
\* decides which error it is.
C7_OptionErrorsAbortFirst ==
    /\ (req.cmd = "format" /\ (BadFormatOption \/ BadVersionOption \/ BadBaseOption)) =>
          /\ pc = "done"
          /\ ret = IF BadFormatOption THEN ErrInvalidFormat
                   ELSE IF BadVersionOption THEN ErrInvalidVersion
                   ELSE ErrUnknownBase
          /\ calls = NoCalls
          /\ emitted = <<>>
    /\ ret \in OptionErrors =>
          /\ BadFormatOption \/ BadVersionOption \/ BadBaseOption
          /\ calls = NoCalls /\ emitted = <<>>

C7_Witness ==
    /\ pc = "done" /\ req.cmd = "format"
    /\ req.b = "base99" /\ ~BadFormatOption /\ ~BadVersionOption
    /\ ret = ErrUnknownBase
    /\ Len(req.args) = 2 /\ Decode(req.args[1]).err = "nil"
    /\ emitted = <<>>


-----------------------------------------------------------------------------
(* Properties of the version converters (SpecConv).                        *)

SameMultihash(x, y) == x.digest = y.digest /\ x.mhType = y.mhType

\* C5: conversions keep the multihash. For an identifier whose codec is
\* DagProtobuf, toCidV0 after toCidV1 and toCidV1 after toCidV0 both succeed
\* and give back its codec, digest and hash-function tag; after any chain of
\* successful conversions the digest and tag are those of the start.
C5_ConversionKeepsMultihash ==
    /\ (orig.codec = DagProtobuf /\ hist \in {<<"1", "0">>, <<"0", "1">>}) =>
          /\ convErr = "nil"
          /\ cur.codec = orig.codec
          /\ SameMultihash(cur, orig)
          /\ cur.version = IF hist[2] = "0" THEN 0 ELSE 1
    /\ (hist # <<>> /\ convErr = "nil") => SameMultihash(cur, orig)

C5_Witness ==
    /\ hist = <<"1", "0">>
    /\ orig.version = 1 /\ orig.codec = DagProtobuf /\ orig.mhType = 19
    /\ convErr = "nil" /\ cur.version = 0 /\ SameMultihash(cur, orig)

\* C6: a conversion to the version an identifier already has returns that
\* identifier, version, codec and multihash unchanged, and does not fail;
\* toCidV1 fails for no identifier. Stated of every step of a chain.
C6_NoOpConversions ==
    [][ /\ (hist' = Append(hist, "0") /\ cur.version = 0) =>
              (convErr' = "nil" /\ cur' = cur)
        /\ (hist' = Append(hist, "1") /\ cur.version = 1) =>
              (convErr' = "nil" /\ cur' = cur)
        /\ hist' = Append(hist, "1") => (convErr' = "nil" /\ cur'.version = 1)
      ]_vars

C6_Witness ==
    /\ hist = <<"0", "1", "1">>
    /\ orig.version = 1 /\ orig.codec = DagProtobuf
    /\ convErr = "nil" /\ cur.version = 1

-----------------------------------------------------------------------------
(* Properties of the registry listings (SpecList).                         *)

Codes(rows) == [i \in DOMAIN rows |-> rows[i].Code]

IsPermutation(a, b) ==
    /\ Len(a) = Len(b)
    /\ \E f \in [DOMAIN a -> DOMAIN b] :
          /\ \A i, j \in DOMAIN a : i # j => f[i] # f[j]
          /\ \A i \in DOMAIN a : a[i] = b[f[i]]

\* C8: over the entries of any table of distinct codes multibaseSorter.Less
\* is a strict total order (irreflexive, transitive, and exactly one way round
\* for two different entries); the sorted listing is a permutation of the
\* emitted one, strictly ascending under Less, and is the same for every order
\* in which the map may have been visited; the markers B, b, F, f come out
\* as b, B, f, F.
C8_MultibaseOrder ==
    (listCmd = "bases") =>
        /\ \A i, j, k \in DOMAIN listRes :
              /\ ~multibaseSorter_Less(listRes, i, i)
              /\ i # j => (multibaseSorter_Less(listRes, i, j)
                             # multibaseSorter_Less(listRes, j, i))
              /\ (multibaseSorter_Less(listRes, i, j)
                    /\ multibaseSorter_Less(listRes, j, k))
                 => multibaseSorter_Less(listRes, i, k)
        /\ (listPc = "encoded") =>
              /\ IsPermutation(listOut, listRes)
              /\ \A i, j \in DOMAIN listOut :
                    i < j => multibaseSorter_Less(listOut, i, j)
              /\ \A o \in RangeOrders(baseTbl) :
                    Sort("multibaseSorter", BasesRes(o)) = listOut
              /\ baseTbl = {66, 98, 70, 102} => Codes(listOut) = <<98, 66, 102, 70>>

C8_Witness ==
    /\ listCmd = "bases" /\ listPc = "encoded"
    /\ baseTbl = {66, 98, 70, 102}
    /\ Codes(listRes) = <<70, 66, 102, 98>>
    /\ Codes(listOut) = <<98, 66, 102, 70>>

\* C9: the hash listing holds exactly the registry entries whose code
\* IsGoodHash accepts, each once, with its own name, none added and none
\* flagged; the encoder prints the same entries; the registry is never changed.
C9_OnlyGoodHashes ==
    /\ [](listCmd = "hashes" =>
            /\ \A i \in DOMAIN listRes :
                  /\ IsGoodHash(listRes[i].Code)
                  /\ listRes[i].Code \in hashTbl
                  /\ listRes[i] = [Code |-> listRes[i].Code,
                                   Name |-> HashName(listRes[i].Code)]
            /\ \A c \in hashTbl :
                  IsGoodHash(c) => \E i \in DOMAIN listRes : listRes[i].Code = c
            /\ \A i, j \in DOMAIN listRes : i # j => listRes[i].Code # listRes[j].Code
            /\ listPc = "encoded" => IsPermutation(listOut, listRes))
    /\ [][hashTbl' = hashTbl]_vars

C9_Witness ==
    /\ listCmd = "hashes" /\ listPc = "encoded"
    /\ hashTbl = HashPool
    /\ Codes(listOut) = <<0, 18>>
    /\ Codes(listRes) = <<18, 0>>

-----------------------------------------------------------------------------
(* Properties of urlstore add (SpecUrl).                                   *)

IsLayout(e) == e \in {"balanced.Layout", "trickle.Layout"}

ImporterCalls == { k \in DOMAIN urlLog : IsLayout(urlLog[k]) }

====
